---- MODULE Spec2Model ----
(***************************************************************************)
(* Slack user-token generator: an OAuth relay in two deployment forms.     *)
(*   "server" : the long-running Express server (class UserTokenGenerator) *)
(*   "vercel" : the serverless handler (api/index.js)                      *)
(* The model follows one deployment per behaviour (chosen in Init): the    *)
(* pending-state map, the /auth/start handler, the /auth/callback handler  *)
(* split at its one suspension point (the outbound token-exchange POST),   *)
(* the periodic cleanup timer of the server, and the wall clock.           *)
(*                                                                         *)
(* Text is modelled as a sequence of parts (strings); "contains" is        *)
(* membership of a part.  The value undefined/null is Absent; a failed     *)
(* template interpolation of it prints "undefined".                        *)
(*                                                                         *)
(* api/index.js line 120 reads `const userScopes = const userScopes = [`,  *)
(* which does not parse; the handler is modelled with the duplicated       *)
(* declaration read once.                                                  *)
(*                                                                         *)
(* crypto.randomBytes(16) is modelled as a token that was never minted     *)
(* before (tokens are handed out in a fixed order: they are opaque), and a *)
(* client can present only a token that a redirect has shown it, or a      *)
(* forged one that is in no store.                                         *)
(***************************************************************************)
EXTENDS Integers, Sequences, FiniteSets, TLC

\* ---------------------------------------------------------------- bounds
MaxStates == 2
MaxRequests == 3
MaxInflight == 2
MaxTicks == 3

\* ------------------------------------------------------ program constants
tenMinutes == 600000
SweepInterval == 300000
DefaultMaxLength == 100

Absent == "absent"
Variants == {"server", "vercel"}

\* ------------------------------------------------------------ text helpers
Range(seq) == {seq[i] : i \in DOMAIN seq}
Contains(text, part) == part \in Range(text)
\* template interpolation `${x}` of a scalar
Str(x) == IF x = Absent THEN "undefined" ELSE x
\* JS truthiness of an optional string
Truthy(x) == x # Absent /\ x # ""

RECURSIVE DropLeading(_)
DropLeading(s) ==
  IF s # <<>> /\ Head(s) = " " THEN DropLeading(Tail(s)) ELSE s

RECURSIVE DropTrailing(_)
DropTrailing(s) ==
  IF s # <<>> /\ s[Len(s)] = " " THEN DropTrailing(SubSeq(s, 1, Len(s) - 1)) ELSE s

Trim(s) == DropTrailing(DropLeading(s))
Slice(s, n) == SubSeq(s, 1, IF Len(s) < n THEN Len(s) ELSE n)
StripChars == {"<", ">", "\"", "'", "&"}
Strip(s) == SelectSeq(s, LAMBDA c : c \notin StripChars)

\* input.trim().slice(0, maxLength).replace(/[<>\"'&]/g, '')
\* (an absent or empty input is the empty sequence and yields '')
validateInput(input, maxLength) ==
  IF input = <<>> THEN <<>> ELSE Strip(Slice(Trim(input), maxLength))

\* scopes.replace(/,/g, ', ')
RECURSIVE ReplaceCommas(_)
ReplaceCommas(s) ==
  IF s = <<>> THEN <<>>
  ELSE (IF Head(s) = "," THEN <<",", " ">> ELSE <<Head(s)>>) \o ReplaceCommas(Tail(s))

\* ------------------------------------------------------------- state store
\* variant, env      : the deployment and its environment variables
\* now, sweepDue     : Date.now(), and when the cleanup timer is next due
\* pendingStates     : the Map of pending OAuth states
\* minted, nreq      : tokens minted and HTTP requests received so far
\* inflight          : callback requests suspended at the token exchange
\* handed, failed, exchanged : history of each state token: its metadata was
\*                     handed to a callback, a callback's exchange failed at
\*                     the provider, a callback showed the token
\* last, response, logs : the step just taken, the HTTP response it sent and
\*                     the values it wrote to the console
VARIABLES variant, env, now, sweepDue, pendingStates, minted, nreq,
          inflight, handed, failed, exchanged, last, response, logs

vars == <<variant, env, now, sweepDue, pendingStates, minted, nreq,
          inflight, handed, failed, exchanged, last, response, logs>>

\* the n-th token crypto.randomBytes(16).toString('hex') returns
RandomHex(n) == CASE n = 0 -> "s1" [] n = 1 -> "s2" [] n = 2 -> "s3" [] OTHER -> "s4"

EmptyMap == [s \in {} |-> Absent]
MapSet(m, k, v) == [s \in DOMAIN m \cup {k} |-> IF s = k THEN v ELSE m[s]]
MapDeleteToggle(m, k) ==
  IF k \in DOMAIN m THEN [s \in DOMAIN m \ {k} |-> m[s]]
  ELSE [s \in DOMAIN m \cup {k} |-> IF s = k THEN [user_id |-> <<>>, user_name |-> <<>>, timestamp |-> 0] ELSE m[s]]
\* Map.delete: removing a key that is not there changes nothing
MapDelete(m, k) == [s \in DOMAIN m \ {k} |-> m[s]]
MapHas(m, k) == k \in DOMAIN m
\* Map.get: the entry, or undefined (an entry without content)
NoEntry == [user_id |-> <<>>, user_name |-> <<>>, timestamp |-> 0]
MapGet(m, k) == IF k \in DOMAIN m THEN m[k] ELSE NoEntry

\* ----------------------------------------------------------- configuration
\* start(): the process exits before it listens unless both credentials are set
Listens(e) == Truthy(e.clientId) /\ Truthy(e.clientSecret)
\* the constructor gives redirectUri a default, so it is never absent
ServerEnvs ==
  {e \in [clientId : {"cid", Absent}, clientSecret : {"sec"},
          redirectUri : {"http://localhost/auth/callback"}] : Listens(e)}
VercelEnvs ==
  {[clientId |-> "cid", clientSecret |-> "sec", redirectUri |-> "https://app/cb"],
   [clientId |-> Absent, clientSecret |-> "sec", redirectUri |-> "https://app/cb"],
   [clientId |-> "cid", clientSecret |-> "sec", redirectUri |-> Absent]}

ServerScopes == <<"channels:read", "groups:read", "users:read">>
VercelScopes == <<"channels:history", "channels:read", "channels:write", "chat:write",
                  "groups:read", "groups:write", "im:history", "im:write",
                  "mpim:history", "users:read", "search:read">>

\* ------------------------------------------------------------ observations
NoReq == [id |-> 0, error |-> Absent, code |-> Absent, state |-> Absent]
NoReply == [net |-> "none"]
NoInput == [user_id |-> <<>>, user_name |-> <<>>]
NoLast == [op |-> "init", req |-> NoReq, input |-> NoInput, seen |-> FALSE,
           reply |-> NoReply, sendFault |-> FALSE, posts |-> 0, cleaned |-> 0]
NoResponse == [kind |-> "None", status |-> 0, body |-> <<>>]
Respond(kind, status, body) == [kind |-> kind, status |-> status, body |-> body]

Init ==
  /\ variant \in Variants
  /\ env \in (IF variant = "server" THEN ServerEnvs ELSE VercelEnvs)
  /\ now = 0
  /\ sweepDue = SweepInterval
  /\ pendingStates = EmptyMap
  /\ minted = 0
  /\ nreq = 0
  /\ inflight = {}
  /\ handed = {}
  /\ failed = {}
  /\ exchanged = {}
  /\ last = NoLast
  /\ response = NoResponse
  /\ logs = {}

\* ------------------------------------------------------------------- clock
\* Date.now() is followed on the grid of the cleanup period; a cleanup that
\* is due runs before the clock reaches the next grid point (requests that
\* arrive at the same instant may still be served before it)
TickCount(t) == t \div SweepInterval

Tick ==
  /\ variant = "server" => now < sweepDue
  /\ TickCount(now + SweepInterval) <= MaxTicks
  /\ now' = now + SweepInterval
  /\ last' = [NoLast EXCEPT !.op = "tick"]
  /\ response' = NoResponse
  /\ logs' = {}
  /\ UNCHANGED <<variant, env, sweepDue, pendingStates, minted, nreq,
                 inflight, handed, failed, exchanged>>

\* ------------------------------------------------------------ /auth/start
\* the query of /auth/start: nothing, or an id one character over the cap and
\* a name with leading blanks and a character of the stripped class
LongText == [i \in 1..(DefaultMaxLength + 1) |-> "x"]
UserInputs ==
  {NoInput, [user_id |-> LongText, user_name |-> <<" ", "<", "T">>]}

\* the metadata stored for the new state
StartEntry(v, q, t) ==
  IF v = "server"
  THEN [user_id |-> validateInput(q.user_id, DefaultMaxLength),
        user_name |-> validateInput(q.user_name, DefaultMaxLength),
        timestamp |-> t]
  ELSE [user_id |-> q.user_id, user_name |-> q.user_name, timestamp |-> t]

AuthUrl(v, e, state) ==
  <<Str(e.clientId)>> \o (IF v = "server" THEN ServerScopes ELSE VercelScopes)
    \o <<Str(e.redirectUri), state>>

StartResponseNoConfigCheck(v, e, state) == Respond("Redirect", 302, AuthUrl(v, e, state))

\* the response of /auth/start once the state is stored
StartResponse(v, e, state) ==
  IF v = "vercel" /\ (~Truthy(e.clientId) \/ ~Truthy(e.redirectUri))
  THEN Respond("ConfigError", 500, <<"Server Configuration Error", "Missing Slack credentials">>)
  ELSE Respond("Redirect", 302, AuthUrl(v, e, state))

StartLogs(v, e, state) ==
  IF v = "server"
  THEN {Str(e.clientId), Str(e.redirectUri)} \cup Range(AuthUrl(v, e, state))
  ELSE {"/auth/start"}

StartFlow ==
  /\ nreq < MaxRequests
  /\ minted < MaxStates
  /\ \E q \in UserInputs :
       LET state == RandomHex(minted) IN
       /\ pendingStates' = MapSet(pendingStates, state, StartEntry(variant, q, now))
       /\ response' = StartResponse(variant, env, state)
       /\ logs' = StartLogs(variant, env, state)
       /\ last' = [NoLast EXCEPT !.op = "start", !.req.id = nreq + 1, !.req.state = state,
                                 !.input = q]
  /\ minted' = minted + 1
  /\ nreq' = nreq + 1
  /\ UNCHANGED <<variant, env, now, sweepDue, inflight, handed, failed, exchanged>>

\* ------------------------------------------------------- periodic cleanup
ExpiredAtTTL(t, data) == t - data.timestamp >= tenMinutes
Expired(t, data) == t - data.timestamp > tenMinutes

RECURSIVE cleanupLoop(_, _, _)
cleanupLoop(m, keys, t) ==
  IF keys = {} THEN m
  ELSE LET s == CHOOSE k \in keys : TRUE IN
       cleanupLoop(IF Expired(t, m[s]) THEN MapDelete(m, s) ELSE m, keys \ {s}, t)

cleanupStates(m, t) == cleanupLoop(m, DOMAIN m, t)

\* setInterval(() => this.cleanupStates(), 5 * 60 * 1000): server only
Sweep ==
  /\ variant = "server"
  /\ now >= sweepDue
  /\ pendingStates' = cleanupStates(pendingStates, now)
  /\ sweepDue' = now + SweepInterval
  /\ last' = [NoLast EXCEPT !.op = "sweep",
                            !.cleaned = Cardinality(DOMAIN pendingStates)
                                        - Cardinality(DOMAIN pendingStates')]
  /\ response' = NoResponse
  /\ logs' = {}
  /\ UNCHANGED <<variant, env, now, minted, nreq, inflight, handed, failed, exchanged>>

\* ------------------------------------------------- the provider's replies
NoUser == [present |-> FALSE, access_token |-> Absent, id |-> Absent, name |-> Absent,
           scopeKind |-> "absent", scope |-> <<>>]
FullUser == [present |-> TRUE, access_token |-> "xoxp-test", id |-> "U1", name |-> "Test",
             scopeKind |-> "string", scope |-> <<"a", ",", "b">>]
\* a reply: the fetch outcome, the HTTP status class, and the body: text, or
\* JSON {ok, error, access_token (bot), authed_user {...}, team {name}}
JsonReply(httpOk, ok, error, user, team) ==
  [net |-> "ok", httpOk |-> httpOk, isJson |-> TRUE, text |-> Absent,
   ok |-> ok, error |-> error, access_token |-> Absent, authed_user |-> user, team |-> team]
TextReply(httpOk, text) ==
  [net |-> "ok", httpOk |-> httpOk, isJson |-> FALSE, text |-> text,
   ok |-> FALSE, error |-> Absent, access_token |-> Absent, authed_user |-> NoUser,
   team |-> Absent]
NetworkError ==
  [net |-> "error", httpOk |-> FALSE, isJson |-> FALSE, text |-> Absent,
   ok |-> FALSE, error |-> Absent, access_token |-> Absent, authed_user |-> NoUser,
   team |-> Absent]
\* the provider reports a failure: a non-success status or ok:false
ProviderFailure(r) == r.net = "ok" /\ (~r.httpOk \/ (r.isJson /\ ~r.ok))

ProviderReplies ==
  {NetworkError,
   TextReply(FALSE, "upstream_down"),
   JsonReply(FALSE, FALSE, "ratelimited", NoUser, Absent),
   JsonReply(TRUE, FALSE, "invalid_code", NoUser, Absent),
   JsonReply(TRUE, FALSE, Absent, NoUser, Absent),
   JsonReply(TRUE, FALSE, "invalid_code", FullUser, "T"),
   JsonReply(TRUE, TRUE, Absent, FullUser, "T"),
   JsonReply(TRUE, TRUE, Absent, [FullUser EXCEPT !.access_token = Absent], "T"),
   JsonReply(TRUE, TRUE, Absent, NoUser, "T"),
   [JsonReply(TRUE, TRUE, Absent, [NoUser EXCEPT !.present = TRUE, !.id = "U1"], "T")
      EXCEPT !.access_token = "xoxb-bot"],
   JsonReply(TRUE, TRUE, Absent,
             [FullUser EXCEPT !.id = Absent, !.name = Absent,
                              !.scopeKind = "absent", !.scope = <<>>], Absent),
   JsonReply(TRUE, TRUE, Absent, [FullUser EXCEPT !.scopeKind = "array"], "T")}

Opt(x) == IF x = Absent THEN <<>> ELSE <<x>>
\* the values an object of the reply carries, as printed or serialised
UserText(u) ==
  IF u.present THEN Opt(u.access_token) \o Opt(u.id) \o Opt(u.name) \o u.scope ELSE <<>>
\* response.text(), and console.log(data)
BodyText(r) ==
  IF r.isJson
  THEN Opt(r.error) \o Opt(r.access_token) \o UserText(r.authed_user) \o Opt(r.team)
  ELSE Opt(r.text)
HttpStatus(r) == IF r.httpOk THEN "200" ELSE "500"

\* the message of the SyntaxError response.json() throws on a non-JSON body;
\* whether it quotes the body depends on the engine version (echo)
JsonParseMessage(r, echo) ==
  <<"Unexpected token in JSON">> \o (IF echo THEN BodyText(r) ELSE <<>>)

Thrown(message, logged) == [threw |-> TRUE, message |-> message, logs |-> logged]
Returned(logged) == [threw |-> FALSE, message |-> <<>>, logs |-> logged]

\* exchangeCodeForToken, from the resolution of fetch on (server)
exchangeCodeForToken(r, echo) ==
  IF r.net = "error"
    THEN Thrown(<<"fetch failed">>, {"fetch failed"})
  ELSE IF ~r.httpOk
    THEN LET msg == <<"HTTP error! status: ", HttpStatus(r), " - ">> \o BodyText(r) IN
         Thrown(msg, {HttpStatus(r)} \cup Range(BodyText(r)) \cup Range(msg))
  ELSE IF ~r.isJson
    THEN Thrown(JsonParseMessage(r, echo),
                {HttpStatus(r)} \cup Range(JsonParseMessage(r, echo)))
  ELSE IF ~r.ok
    THEN LET msg == <<"OAuth exchange failed: ", Str(r.error)>> IN
         Thrown(msg, {HttpStatus(r), Str(r.error)} \cup Range(BodyText(r)) \cup Range(msg))
  ELSE Returned({HttpStatus(r), Str(r.error)})

\* ------------------------------------------------------------------ pages
Or(text, fallback) == IF text # <<>> THEN text ELSE fallback
ScopesText(u) == IF u.scopeKind = "absent" \/ u.scope = <<>> THEN <<"No scopes">> ELSE u.scope
ReplaceThrows(u) == u.scopeKind = "array"

\* getSuccessPageWithToken: the styled page, or the minimal page of its catch
getSuccessPageWithToken(r, stateData) ==
  LET u == r.authed_user IN
  IF ReplaceThrows(u)
  THEN Respond("TokenFallback", 200,
               <<IF Truthy(u.access_token) THEN u.access_token ELSE "Error displaying token">>)
  ELSE Respond("TokenDisplayed", 200,
               <<IF Truthy(u.access_token) THEN u.access_token ELSE "No token generated">>
               \o Or(Opt(u.name), Or(stateData.user_name, <<"Unknown User">>))
               \o Or(Opt(u.id), <<"Unknown ID">>)
               \o Or(Opt(r.team), <<"Unknown Team">>)
               \o ReplaceCommas(ScopesText(u)))

\* the success page of api/index.js (built inline)
VercelSuccessPage(r, stateData) ==
  LET u == r.authed_user IN
  Respond("TokenDisplayed", 200,
          <<IF Truthy(u.access_token) THEN u.access_token ELSE "No token generated">>
          \o Or(Opt(u.name), Or(stateData.user_name, <<"Unknown User">>))
          \o Or(Opt(r.team), <<"Unknown Team">>)
          \o ReplaceCommas(ScopesText(u)))

getErrorPage(kind, errorMessage) == Respond(kind, 200, <<"Authorization Failed">> \o errorMessage)

\* --------------------------------------------------------- /auth/callback
\* the state tokens a client can present: those a redirect has disclosed
\* (a 128-bit random token cannot be guessed), besides forged ones
Disclosed(v, e, n) ==
  {RandomHex(i) : i \in {j \in 0..(n - 1) : StartResponse(v, e, RandomHex(j)).kind = "Redirect"}}

CallbackQueries(known) ==
  [error : {Absent, "access_denied"}, code : {Absent, "abc"},
   state : {Absent, "deadbeef"} \cup known]

ValidateCallbackNoStateCheck(m, q) ==
  IF Truthy(q.error) THEN "ProviderDenied"
  ELSE IF ~Truthy(q.code) \/ ~Truthy(q.state) THEN "Malformed"
  ELSE "Pass"

ValidateCallbackMissingFirst(m, q) ==
  IF ~Truthy(q.code) \/ ~Truthy(q.state) THEN "Malformed"
  ELSE IF Truthy(q.error) THEN "ProviderDenied"
  ELSE IF ~MapHas(m, q.state) THEN "InvalidState"
  ELSE "Pass"

\* the checks before the exchange, in the handler's order
ValidateCallback(m, q) ==
  IF Truthy(q.error) THEN "ProviderDenied"
  ELSE IF ~Truthy(q.code) \/ ~Truthy(q.state) THEN "Malformed"
  ELSE IF ~MapHas(m, q.state) THEN "InvalidState"
  ELSE "Pass"

FetchCallsRetry(verdict) == IF verdict = "Pass" THEN 2 ELSE 0

\* the number of fetch() calls the handler issues for a verdict
FetchCalls(verdict) == IF verdict = "Pass" THEN 1 ELSE 0

RejectMessage(verdict, q) ==
  CASE verdict = "ProviderDenied" -> <<"OAuth Error: ", q.error>>
    [] verdict = "Malformed" -> <<"Missing authorization code or state">>
    [] OTHER -> <<"Invalid or expired state parameter">>

\* the page of a request rejected before the exchange
RejectResponse(v, verdict, q) ==
  IF v = "server" THEN getErrorPage(verdict, RejectMessage(verdict, q))
  ELSE Respond(verdict, 400, RejectMessage(verdict, q))

\* what the synchronous part of the handler logs
ValidateLogs(v, e, m, verdict, q) ==
  IF v = "vercel" THEN {"/auth/callback"}
  ELSE ({q.error, q.code, q.state} \ {Absent})
       \cup (IF verdict = "InvalidState" THEN DOMAIN m ELSE {})
       \cup (IF verdict = "Pass"
             THEN Range(MapGet(m, q.state).user_id) \cup Range(MapGet(m, q.state).user_name)
                  \cup {"Present", Str(e.redirectUri)}
             ELSE {})

Pending == Respond("Pending", 0, <<>>)

\* the handler up to `await fetch(...)`, or to the response that rejects it
CallbackStart ==
  /\ nreq < MaxRequests
  /\ \E q \in CallbackQueries(Disclosed(variant, env, minted)) :
       LET verdict == ValidateCallback(pendingStates, q)
           req == [id |-> nreq + 1, error |-> q.error, code |-> q.code, state |-> q.state]
           seen == MapHas(pendingStates, q.state)
       IN
       /\ verdict = "Pass" => Cardinality(inflight) < MaxInflight
       /\ inflight' =
            IF FetchCalls(verdict) > 0
            THEN inflight \cup {[req |-> req, seen |-> seen,
                                 stateData |-> MapGet(pendingStates, q.state),
                                 posts |-> FetchCalls(verdict)]}
            ELSE inflight
       /\ handed' = IF verdict = "Pass" THEN handed \cup {q.state} ELSE handed
       /\ response' = IF FetchCalls(verdict) > 0 THEN Pending
                      ELSE RejectResponse(variant, verdict, q)
       /\ logs' = ValidateLogs(variant, env, pendingStates, verdict, q)
       /\ last' = [NoLast EXCEPT !.op = "callback", !.req = req, !.seen = seen,
                                 !.posts = FetchCalls(verdict)]
  /\ nreq' = nreq + 1
  /\ UNCHANGED <<variant, env, now, sweepDue, pendingStates, minted, failed, exchanged>>

Outcome(resp, logged, consume) == [response |-> resp, logs |-> logged, consume |-> consume]

InvalidTokenData(u) == ~u.present \/ ~Truthy(u.access_token)

\* the server's handler from the resolution of exchangeCodeForToken on
ServerOutcome(r, stateData, sendFault, echo) ==
  LET x == exchangeCodeForToken(r, echo)
      u == r.authed_user
  IN
  IF x.threw
    THEN Outcome(getErrorPage("ExchangeError", <<"Token exchange failed: ">> \o x.message),
                 x.logs \cup Range(x.message), FALSE)
  ELSE IF InvalidTokenData(u)
    THEN Outcome(getErrorPage("ExchangeError",
                              <<"Token exchange failed: ", "Invalid token data received from Slack">>),
                 x.logs \cup Range(BodyText(r)) \cup {"Invalid token data received from Slack"},
                 FALSE)
  ELSE IF sendFault
    THEN Outcome(Respond("RenderError", 500,
                         <<"Success! Token generated, but error displaying page. Check server logs.">>),
                 x.logs \cup {"send failed"}, TRUE)
  ELSE Outcome(getSuccessPageWithToken(r, stateData),
               x.logs \cup Range(Or(Opt(u.id), <<"Unknown">>))
                      \cup Range(Or(stateData.user_name, Or(Opt(u.name), <<"Unknown">>)))
                      \cup (IF ReplaceThrows(u) THEN {"scopes.replace is not a function"} ELSE {}),
               TRUE)

VercelFailure(message, consumed) ==
  Outcome(Respond("ExchangeError", 500, <<"Token Exchange Failed">> \o message),
          Range(message), consumed)

\* the serverless handler from the resolution of fetch on
VercelOutcome(r, stateData, sendFault, echo) ==
  IF r.net = "error" THEN VercelFailure(<<"fetch failed">>, FALSE)
  ELSE IF ~r.isJson THEN VercelFailure(JsonParseMessage(r, echo), FALSE)
  ELSE IF ~r.ok
    THEN VercelFailure(<<IF Truthy(r.error) THEN r.error ELSE "Token exchange failed">>, FALSE)
  ELSE IF ReplaceThrows(r.authed_user)
    THEN VercelFailure(<<"scopes.replace is not a function">>, TRUE)
  ELSE IF sendFault THEN VercelFailure(<<"send failed">>, TRUE)
  ELSE Outcome(VercelSuccessPage(r, stateData), {}, TRUE)

CallbackOutcome(v, r, stateData, sendFault, echo) ==
  IF v = "server" THEN ServerOutcome(r, stateData, sendFault, echo)
  ELSE VercelOutcome(r, stateData, sendFault, echo)

TokenPages == {"TokenDisplayed", "TokenFallback"}

\* res.send can only fault where a page is sent after a parsed, accepted reply;
\* the parser's message only exists for a body that is not JSON
SendFaults(r) == IF r.net = "ok" /\ r.isJson /\ r.ok THEN BOOLEAN ELSE {FALSE}
ParseEchoes(r) == IF r.net = "ok" /\ ~r.isJson THEN BOOLEAN ELSE {FALSE}

\* the handler from the provider's reply to its response
CallbackReply ==
  \E rec \in inflight, r \in ProviderReplies :
  \E sendFault \in SendFaults(r), echo \in ParseEchoes(r) :
    LET out == CallbackOutcome(variant, r, rec.stateData, sendFault, echo) IN
    /\ inflight' = inflight \ {rec}
    /\ pendingStates' = IF out.consume THEN MapDelete(pendingStates, rec.req.state)
                        ELSE pendingStates
    /\ exchanged' = IF out.response.kind \in TokenPages
                    THEN exchanged \cup {rec.req.state} ELSE exchanged
    /\ failed' = IF ProviderFailure(r) THEN failed \cup {rec.req.state} ELSE failed
    /\ response' = out.response
    /\ logs' = out.logs
    /\ last' = [NoLast EXCEPT !.op = "reply", !.req = rec.req, !.seen = rec.seen,
                              !.reply = r, !.posts = rec.posts,
                              !.sendFault = sendFault]
    /\ UNCHANGED <<variant, env, now, sweepDue, minted, nreq, handed>>

Next == Tick \/ StartFlow \/ Sweep \/ CallbackStart \/ CallbackReply

Spec == Init /\ [][Next]_vars

\* What runs without anyone asking: the clock, and on the server the timer
\* of setInterval.  Requests arrive when clients send them, and the handler
\* resumes from `await fetch(...)` only when fetch settles: the call passes
\* no timeout and no abort signal, so nothing in the program makes it settle.
LiveSpec == Spec /\ WF_vars(Tick) /\ WF_vars(Sweep)

\* ------------------------------------------------- the two side by side
\* Both deployments started from one process environment and given the same
\* requests, the same random state tokens and the same provider replies; the
\* clock stays within the first cleanup period, so no sweep fires.  The
\* variables pendingStates and response hold one value per deployment, and
\* a suspended callback records, per deployment, whether it passed validation.
\* the constructor: redirectUri falls back to the local callback URL
Constructed(pe) ==
  [pe EXCEPT !.redirectUri = IF Truthy(@) THEN @ ELSE "http://localhost/auth/callback"]
ProcessEnvs ==
  {pe \in [clientId : {"cid"}, clientSecret : {"sec"},
           redirectUri : {"https://app/cb", Absent}] : Listens(pe)}
SideEnv(v, pe) == IF v = "server" THEN Constructed(pe) ELSE pe

PairInit ==
  /\ variant = "pair"
  /\ env \in ProcessEnvs
  /\ now = 0
  /\ sweepDue = SweepInterval
  /\ pendingStates = [v \in Variants |-> EmptyMap]
  /\ minted = 0
  /\ nreq = 0
  /\ inflight = {}
  /\ handed = {}
  /\ failed = {}
  /\ exchanged = {}
  /\ last = NoLast
  /\ response = [v \in Variants |-> NoResponse]
  /\ logs = {}

\* GET /auth/start on both
PairStart ==
  /\ nreq < MaxRequests
  /\ minted < MaxStates
  /\ \E q \in UserInputs :
       LET state == RandomHex(minted) IN
       /\ pendingStates' =
            [v \in Variants |-> MapSet(pendingStates[v], state, StartEntry(v, q, now))]
       /\ response' = [v \in Variants |-> StartResponse(v, SideEnv(v, env), state)]
       /\ last' = [NoLast EXCEPT !.op = "start", !.req.id = nreq + 1, !.req.state = state,
                                 !.input = q]
  /\ minted' = minted + 1
  /\ nreq' = nreq + 1
  /\ UNCHANGED <<variant, env, now, sweepDue, inflight, handed, failed, exchanged, logs>>

\* GET /auth/callback on both, up to `await fetch(...)` or the rejection
PairCallback ==
  /\ nreq < MaxRequests
  /\ \E q \in CallbackQueries(UNION {Disclosed(v, SideEnv(v, env), minted) : v \in Variants}) :
       LET verdict == [v \in Variants |-> ValidateCallback(pendingStates[v], q)]
           req == [id |-> nreq + 1, error |-> q.error, code |-> q.code, state |-> q.state]
           early == [v \in Variants |->
                       IF FetchCalls(verdict[v]) > 0 THEN Pending
                       ELSE RejectResponse(v, verdict[v], q)]
           suspended == \E v \in Variants : FetchCalls(verdict[v]) > 0
       IN
       /\ suspended => Cardinality(inflight) < MaxInflight
       /\ inflight' =
            IF suspended
            THEN inflight \cup {[req |-> req, verdict |-> verdict, early |-> early,
                                 stateData |-> [v \in Variants |->
                                                  MapGet(pendingStates[v], q.state)]]}
            ELSE inflight
       /\ response' = early
       /\ last' = [NoLast EXCEPT !.op = "callback", !.req = req,
                                 !.seen = \A v \in Variants : MapHas(pendingStates[v], q.state),
                                 !.posts = IF suspended THEN 1 ELSE 0]
  /\ nreq' = nreq + 1
  /\ UNCHANGED <<variant, env, now, sweepDue, pendingStates, minted, handed, failed,
                 exchanged, logs>>

\* the provider's one reply reaches the deployments that are waiting for it
PairReply ==
  \E rec \in inflight, r \in ProviderReplies :
  \E echo \in ParseEchoes(r) :
    LET out == [v \in Variants |-> CallbackOutcome(v, r, rec.stateData[v], FALSE, echo)]
        waits == [v \in Variants |-> FetchCalls(rec.verdict[v]) > 0]
    IN
    /\ inflight' = inflight \ {rec}
    /\ pendingStates' =
         [v \in Variants |->
            IF waits[v] /\ out[v].consume THEN MapDelete(pendingStates[v], rec.req.state)
            ELSE pendingStates[v]]
    /\ response' = [v \in Variants |-> IF waits[v] THEN out[v].response ELSE rec.early[v]]
    /\ last' = [NoLast EXCEPT !.op = "reply", !.req = rec.req, !.reply = r, !.posts = 1]
    /\ UNCHANGED <<variant, env, now, sweepDue, minted, nreq, handed, failed, exchanged, logs>>

PairNext == PairStart \/ PairCallback \/ PairReply

PairSpec == PairInit /\ [][PairNext]_vars

\* ===================================================================
\* Properties
\* ===================================================================
ParamsValid(q) == ~Truthy(q.error) /\ Truthy(q.code) /\ Truthy(q.state)
UserToken(r) == r.authed_user.access_token

\* C1: the state is removed before the exchange is attempted: after a
\* callback whose exchange failed at the provider (ok:false or a non-success
\* status) its state is absent from the store, and a later callback with the
\* same code and state is answered invalid-state and calls no exchange.
C1_ConsumedBeforeExchange ==
  /\ (last.op = "reply" /\ ProviderFailure(last.reply))
       => ~MapHas(pendingStates, last.req.state)
  /\ (last.op = "callback" /\ ParamsValid(last.req) /\ last.req.state \in failed)
       => (response.kind = "InvalidState" /\ last.posts = 0)

\* C2: a state is never matched twice under any interleaving: two callbacks
\* carrying the same state are never both past validation and suspended at
\* the token exchange.
C2_NeverMatchedTwice ==
  \A a \in inflight, b \in inflight : a.req.state = b.req.state => a = b

\* C3: once a callback has shown the token for state s, s is absent from the
\* store and every later callback carrying s with its parameters otherwise in
\* order is answered invalid-state; and over callbacks handled one after the
\* other the metadata of a state is handed to a callback only once (a
\* callback that finds nothing in flight is never handed metadata that was
\* handed out before).
C3_MetadataHandedOutOnce ==
  /\ [](\A s \in exchanged : ~MapHas(pendingStates, s))
  /\ []((last.op = "callback" /\ ParamsValid(last.req) /\ last.req.state \in exchanged)
          => response.kind = "InvalidState")
  /\ [][(last'.op = "callback" /\ response'.kind = "Pending" /\ inflight = {})
          => last'.req.state \notin handed]_vars

\* C4: the token-exchange POST is issued for a callback only if the request
\* carried no provider error, carried a code and a state, and its state was a
\* key of the store when it was validated; error=access_denied and a state
\* never minted cause no POST.
ValidatedBeforeExchange(req, seen, posts) ==
  posts > 0 => (~Truthy(req.error) /\ Truthy(req.code) /\ Truthy(req.state) /\ seen)

C4_ExchangeOnlyAfterValidation ==
  /\ \A rec \in inflight : ValidatedBeforeExchange(rec.req, rec.seen, rec.posts)
  /\ last.op \in {"callback", "reply"} => ValidatedBeforeExchange(last.req, last.seen, last.posts)
  /\ (last.op = "callback" /\ (last.req.error = "access_denied" \/ last.req.state = "deadbeef"))
       => (last.posts = 0 /\ response.kind # "Pending")

C4_Witness ==
  /\ last.op = "callback" /\ last.posts = 1 /\ last.seen
  /\ \E rec \in inflight : rec.req = last.req

\* C5: the callback reports the first failing check in the order provider
\* error, missing code or state, state not in the store, exchange failure;
\* a rejected request goes no further.
FirstFailure(req, seen) ==
  IF Truthy(req.error) THEN "ProviderDenied"
  ELSE IF ~Truthy(req.code) \/ ~Truthy(req.state) THEN "Malformed"
  ELSE IF ~seen THEN "InvalidState"
  ELSE "None"

C5_FirstFailureReported ==
  last.op \in {"callback", "reply"} =>
    IF FirstFailure(last.req, last.seen) # "None"
    THEN /\ response.kind = FirstFailure(last.req, last.seen)
         /\ last.op = "callback" /\ last.posts = 0
         /\ \A rec \in inflight : rec.req.id # last.req.id
    ELSE response.kind \in {"Pending", "ExchangeError", "RenderError"} \cup TokenPages

C5_Witness ==
  /\ last.op = "callback" /\ last.seen
  /\ last.req.error = "access_denied" /\ last.req.code = "abc"
  /\ response.kind = "ProviderDenied"

\* C6: a sweep at time now removes every entry with now - createdAt > TTL and
\* leaves every other entry, one of age exactly TTL included, in the store
\* with its metadata and timestamp unchanged.
C6_SweepRemovesExactlyExpired ==
  [][last'.op = "sweep" =>
       /\ DOMAIN pendingStates' \subseteq DOMAIN pendingStates
       /\ \A s \in DOMAIN pendingStates :
            IF now - pendingStates[s].timestamp > tenMinutes
            THEN s \notin DOMAIN pendingStates'
            ELSE s \in DOMAIN pendingStates' /\ pendingStates'[s] = pendingStates[s]]_vars

C6_Witness ==
  /\ last.op = "sweep" /\ last.cleaned > 0
  /\ \E s \in DOMAIN pendingStates : now - pendingStates[s].timestamp = tenMinutes

\* C7: when the exchange fails at the provider (a non-success status or
\* ok:false) the callback is answered with the exchange-failure error, the
\* message contains the provider's error string, and no token page is shown.
ProviderDiagnostic(r) == IF r.isJson THEN r.error ELSE r.text

C7_ExchangeFailureReported ==
  (last.op = "reply" /\ ProviderFailure(last.reply)) =>
    /\ response.kind = "ExchangeError"
    /\ Truthy(ProviderDiagnostic(last.reply))
         => Contains(response.body, ProviderDiagnostic(last.reply))

\* C8: a callback request causes at most one POST to the token endpoint,
\* whatever the reply to it was.
C8_SingleAttempt ==
  /\ \A rec \in inflight : rec.posts <= 1
  /\ last.posts <= 1
  /\ last.op = "reply" => last.posts = 1

C8_Witness ==
  /\ last.op = "reply" /\ last.posts = 1
  /\ ProviderFailure(last.reply) /\ response.kind = "ExchangeError"

\* C9: no access token the provider returned is written to the console by
\* the callback handler, whatever the reply and whether or not sending the
\* page faults.
C9_TokenNeverLogged ==
  last.op = "reply" =>
    /\ Truthy(UserToken(last.reply)) => UserToken(last.reply) \notin logs
    /\ Truthy(last.reply.access_token) => last.reply.access_token \notin logs

\* C10: a callback whose state was in the store and whose exchange returns
\* ok with authed_user {access_token, id, name, scope} and team {name} is
\* answered with the token page, which embeds the token, the owner's id and
\* name, the team's name and the scopes.
CompleteReply(r) ==
  /\ r.net = "ok" /\ r.httpOk /\ r.isJson /\ r.ok
  /\ r.authed_user.present /\ Truthy(r.authed_user.access_token)
  /\ Truthy(r.authed_user.id) /\ Truthy(r.authed_user.name)
  /\ r.authed_user.scopeKind = "string" /\ r.authed_user.scope # <<>>
  /\ Truthy(r.team)
ScopeNames(scope) == Range(scope) \ {",", " "}

C10_TokenPageEmbedsResult ==
  (last.op = "reply" /\ last.seen /\ CompleteReply(last.reply) /\ ~last.sendFault) =>
    /\ response.kind = "TokenDisplayed"
    /\ Contains(response.body, last.reply.authed_user.access_token)
    /\ Contains(response.body, last.reply.authed_user.id)
    /\ Contains(response.body, last.reply.authed_user.name)
    /\ Contains(response.body, last.reply.team)
    /\ ScopeNames(last.reply.authed_user.scope) \subseteq Range(response.body)

\* C11: a successful exchange is never lost: when the exchange has returned
\* ok with a user token and building or sending the token page then fails,
\* the response still shows the access token.
ExchangeSucceeded(r) ==
  /\ r.net = "ok" /\ r.httpOk /\ r.isJson /\ r.ok
  /\ r.authed_user.present /\ Truthy(r.authed_user.access_token)
PageFailed(r, sendFault) == sendFault \/ ReplaceThrows(r.authed_user)

C11_SuccessNeverLost ==
  (last.op = "reply" /\ ExchangeSucceeded(last.reply)
     /\ PageFailed(last.reply, last.sendFault))
    => Contains(response.body, UserToken(last.reply))

\* C12: /auth/start redirects to the provider only when the client id and the
\* callback URL are both configured; when one is absent it answers the
\* configuration error with status 500 and no redirect, so no redirect URL
\* carries an undefined client_id or redirect_uri.
Configured(e) == Truthy(e.clientId) /\ Truthy(e.redirectUri)

Clean(text) == Len(text) <= 100 /\ Range(text) \cap {"<", ">", "\"", "'", "&"} = {}
Cap(text) == SubSeq(text, 1, IF Len(text) < 100 THEN Len(text) ELSE 100)
Removed(text) == SelectSeq(text, LAMBDA c : c \notin {"<", ">", "\"", "'", "&"})
StoredFor(stored, input) ==
  IF input = <<>> THEN stored = <<>> ELSE stored = Removed(Cap(Trim(input)))

C13_StoredInputsSanitised ==
  /\ \A s \in DOMAIN pendingStates :
       Clean(pendingStates[s].user_id) /\ Clean(pendingStates[s].user_name)
  /\ last.op = "start" =>
       /\ StoredFor(pendingStates[last.req.state].user_id, last.input.user_id)
       /\ StoredFor(pendingStates[last.req.state].user_name, last.input.user_name)

\* C14: /auth/callback answers with status 200 only when it shows a token;
\* a request denied by the provider, a malformed one, one with an invalid or
\* expired state and a failed exchange are answered with status 400 or 500.
FailureKinds == {"ProviderDenied", "Malformed", "InvalidState", "ExchangeError", "RenderError"}

C14_FailureStatus ==
  (last.op \in {"callback", "reply"} /\ response.kind # "Pending") =>
    /\ response.status = 200 => response.kind \in TokenPages
    /\ response.kind \in FailureKinds => response.status \in {400, 500}

\* C15: every callback request that reaches the token exchange is eventually
\* answered, also when the provider never replies: the exchange is bounded
\* by a timeout, after which the request gets the exchange-failure error.
Suspended(id) == \E rec \in inflight : rec.req.id = id

C15_ExchangeEventuallyAnswered ==
  \A id \in 1..MaxRequests : Suspended(id) ~> ~Suspended(id)

\* C16: the cleanup timer may fire while a callback on the same state is
\* suspended at the exchange, and the race is harmless: a key leaves the
\* store once and never comes back; the callback that resumes after the
\* sweep took its key deletes nothing, raises no fault of its own and is
\* answered as its reply deserves; after a sweep every expired key of a
\* suspended callback is gone, and after a consuming callback its key is.
C16_SweepRaceHarmless ==
  [][/\ \A s \in DOMAIN pendingStates' \ DOMAIN pendingStates :
          s = RandomHex(minted) /\ minted' = minted + 1
     /\ (last'.op = "reply" /\ ~MapHas(pendingStates, last'.req.state)) =>
          /\ pendingStates' = pendingStates
          /\ response'.kind \in TokenPages \cup {"ExchangeError", "RenderError"}
          /\ (ExchangeSucceeded(last'.reply)
                /\ ~PageFailed(last'.reply, last'.sendFault))
               => (response'.kind = "TokenDisplayed"
                   /\ Contains(response'.body, UserToken(last'.reply)))
     /\ (last'.op = "reply" /\ response'.kind \in TokenPages) =>
          ~MapHas(pendingStates', last'.req.state)
     /\ last'.op = "sweep" =>
          \A rec \in inflight :
            (now - rec.stateData.timestamp > tenMinutes)
              => ~MapHas(pendingStates', rec.req.state)]_vars

C16_Witness ==
  /\ last.op = "sweep" /\ last.cleaned = 1 /\ minted = 1
  /\ \E rec \in inflight :
       /\ rec.seen /\ now - rec.stateData.timestamp > tenMinutes
       /\ ~MapHas(pendingStates, rec.req.state)

\* C17: every entry /auth/start creates eventually leaves the store: a
\* callback consumes it or, while the cleanup timer keeps firing, the sweep
\* removes it once it is older than the expiry window.  (Stated for the
\* entries that the bounded clock can see grow older than the window.)
StateTokens == {RandomHex(i) : i \in 0..(MaxStates - 1)}
ClockOutlives(data) == data.timestamp + tenMinutes + SweepInterval <= MaxTicks * SweepInterval

C17_EntryEventuallyLeaves ==
  \A s \in StateTokens :
    (MapHas(pendingStates, s) /\ ClockOutlives(MapGet(pendingStates, s)))
      ~> ~MapHas(pendingStates, s)

\* C18: expiry is enforced at validation: no callback reaches the token
\* exchange with a state whose age now - timestamp exceeds ten minutes, also
\* when it arrives after the window has passed and before the next sweep.
C18_ExpiryEnforcedAtValidation ==
  (last.op = "callback" /\ last.posts > 0) =>
    now - MapGet(pendingStates, last.req.state).timestamp <= tenMinutes

\* C19: the token page is produced only when the exchange response has ok
\* true and a non-empty authed_user.access_token; ok true without a token is
\* reported as a failure, never as a token page with a placeholder.
C19_TokenPageNeedsToken ==
  last.op = "reply" =>
    /\ response.kind \in TokenPages =>
         (last.reply.ok /\ last.reply.authed_user.present /\ Truthy(UserToken(last.reply)))
    /\ (last.reply.net = "ok" /\ last.reply.isJson /\ last.reply.ok
          /\ ~Truthy(UserToken(last.reply)))
         => response.kind = "ExchangeError"

\* C20: a /auth/start request that does not end in a redirect leaves the
\* store unchanged: the store holds an entry only for a state token that was
\* sent to the client in a redirect URL.
C20_FailedStartStoresNothing ==
  /\ (last.op = "start" /\ response.kind # "Redirect")
       => ~MapHas(pendingStates, last.req.state)
  /\ DOMAIN pendingStates \subseteq Disclosed(variant, env, minted)

\* C21: the standalone server and the serverless handler are the same relay:
\* side by side on the same requests and provider replies, with no sweep
\* firing, every request gets the same outcome kind from both (the minimal
\* token page counts as a token page) and after every step both stores hold
\* the same states with the same metadata.
OutcomeKind(resp) == IF resp.kind = "TokenFallback" THEN "TokenDisplayed" ELSE resp.kind

C21_SameRelay ==
  /\ OutcomeKind(response["server"]) = OutcomeKind(response["vercel"])
  /\ pendingStates["server"] = pendingStates["vercel"]
====
